---------------------------- MODULE Spec2Model ----------------------------
(***************************************************************************)
(* wyag (src/python/libwyag.py): the object database, the reference files  *)
(* and the revision resolver, as a state machine over the files below the  *)
(* repository's .git directory.                                            *)
(*                                                                         *)
(* Python's bytes and str values are sequences of character codes, so that *)
(* slicing, find, startswith and replace are computed as the code computes *)
(* them.  Indices are Python's (0-based) inside the Py* helpers.           *)
(***************************************************************************)
EXTENDS Integers, Sequences, FiniteSets, TLC

VARIABLES
    fs,       \* the files and directories below .git: path -> node
    pc,       \* where the running command is: "idle", "ref_resolve", "follow", "log"
    call,     \* the running command and its arguments
    ref,      \* ref_resolve: the ref path of the current recursion level
    depth,    \* ref_resolve: the number of enclosing ref_resolve frames
    sha,      \* object_find: the loop variable sha
    reads,    \* the paths the running command's resolution has consulted
    out,      \* the outcome of the command, once it has ended
    seen,     \* log_graphviz: the set seen
    frames,   \* log_graphviz: the frames of the calls that are in their loop
    printed   \* log_graphviz: the edges printed, in order

vars == <<fs, pc, call, ref, depth, sha, reads, out, seen, frames, printed>>

\* the variables of log
logvars == <<seen, frames, printed>>

-----------------------------------------------------------------------------
(* Bounds of the model.                                                    *)

\* Python raises RecursionError when the call stack is deeper than
\* sys.getrecursionlimit() frames (1000 in CPython); the model scales it down.
RecursionLimit == 5

\* At most this many object files are written in one behaviour.
MaxObjects == 3

-----------------------------------------------------------------------------
(* Python values.  Python evaluates the arguments of a call before the     *)
(* call: an operator that uses an argument more than once binds its value  *)
(* first, p \in {p0}, and Val takes the result out of the set of one.       *)

\* the element of a set of one element
Val(S) == CHOOSE v \in S : TRUE

Ret(v)   == [st |-> "ret",   val |-> v,    err |-> ""]
RetNone  == [st |-> "none",  val |-> <<>>, err |-> ""]
Raise(e) == [st |-> "raise", val |-> <<>>, err |-> e]

\* `if not x` for x a str or None
Falsy(r0) ==
    Val({(r.st = "none" \/ (r.st = "ret" /\ r.val = <<>>))
          : r \in {r0}})

Min2(a0, b0) ==
    Val({(IF a < b THEN a ELSE b)
          : a \in {a0}, b \in {b0}})
Max2(a0, b0) ==
    Val({(IF a > b THEN a ELSE b)
          : a \in {a0}, b \in {b0}})

\* the index i of s[i:...] as Python clamps it
PyClamp(s0, i0) ==
    Val({(IF i < 0 THEN Max2(Len(s) + i, 0) ELSE Min2(i, Len(s)))
          : s \in {s0}, i \in {i0}})

\* s[lo:hi] for clamped lo and hi
Between(s0, lo0, hi0) ==
    Val({(IF lo >= hi THEN <<>> ELSE SubSeq(s, lo + 1, hi))
          : s \in {s0}, lo \in {lo0}, hi \in {hi0}})

\* s[a:b]
PySlice(s0, a0, b0) ==
    Val({(Between(s, PyClamp(s, a), PyClamp(s, b)))
          : s \in {s0}, a \in {a0}, b \in {b0}})

\* s[a:]
PyFrom(s0, a0) ==
    Val({(PySlice(s, a, Len(s)))
          : s \in {s0}, a \in {a0}})

\* the least index of hits, -1 when there is none
FirstOf(hits0) ==
    Val({(IF hits = {} THEN -1 ELSE CHOOSE i \in hits : \A j \in hits : i <= j)
          : hits \in {hits0}})

\* s.find(bytes([c]), start)
PyFind(s0, c0, start0) ==
    Val({(FirstOf({i \in PyClamp(s, start)..(Len(s) - 1) : s[i + 1] = c}))
          : s \in {s0}, c \in {c0}, start \in {start0}})

RECURSIVE Flatten(_, _, _)
\* pieces[lo] \o ... \o pieces[hi], by halves
Flatten(pieces0, lo0, hi0) ==
    Val({(IF lo > hi THEN <<>>
          ELSE IF lo = hi THEN pieces[lo]
          ELSE Flatten(pieces, lo, (lo + hi) \div 2) \o Flatten(pieces, (lo + hi) \div 2 + 1, hi))
          : pieces \in {pieces0}, lo \in {lo0}, hi \in {hi0}})

RECURSIVE SumMod(_, _, _, _)
\* (terms[lo] + ... + terms[hi]) % m, by halves
SumMod(terms0, lo0, hi0, m0) ==
    Val({(IF lo > hi THEN 0
          ELSE IF lo = hi THEN terms[lo] % m
          ELSE (SumMod(terms, lo, (lo + hi) \div 2, m) + SumMod(terms, (lo + hi) \div 2 + 1, hi, m)) % m)
          : terms \in {terms0}, lo \in {lo0}, hi \in {hi0}, m \in {m0}})

\* s.startswith(p)
StartsWith(s0, p0) ==
    Val({(Len(s) >= Len(p) /\ SubSeq(s, 1, Len(p)) = p)
          : s \in {s0}, p \in {p0}})

\* old occurs in s at position i (1-based)
OccursAt(s0, old0, i0) ==
    Val({(i + Len(old) - 1 <= Len(s) /\ SubSeq(s, i, i + Len(old) - 1) = old)
          : s \in {s0}, old \in {old0}, i \in {i0}})

\* position i of s lies inside an occurrence of old that starts before it
InsideOccurrence(s0, old0, i0) ==
    Val({(\E j \in 1..(Len(old) - 1) : i - j >= 1 /\ OccursAt(s, old, i - j))
          : s \in {s0}, old \in {old0}, i \in {i0}})

\* s.replace(old, new) for an old that cannot overlap itself (b'\n', b'\n '): every
\* occurrence is replaced
PyReplace(s0, old0, new0) ==
    Val({(Flatten([i \in 1..Len(s) |-> IF OccursAt(s, old, i) THEN new
                                       ELSE IF InsideOccurrence(s, old, i) THEN <<>>
                                       ELSE <<s[i]>>],
                  1, Len(s)))
          : s \in {s0}, old \in {old0}, new \in {new0}})

\* s.lower()
Lower(s0) ==
    Val({([i \in 1..Len(s) |-> IF s[i] >= 65 /\ s[i] <= 90 THEN s[i] + 32 ELSE s[i]])
          : s \in {s0}})

IsDigit(c0) ==
    Val({(c >= 48 /\ c <= 57)
          : c \in {c0}})
\* [0-9A-Fa-f]
IsHexChar(c0) ==
    Val({(IsDigit(c) \/ (c >= 65 /\ c <= 70) \/ (c >= 97 /\ c <= 102))
          : c \in {c0}})
IsSpace(c0) ==
    Val({(c = 32 \/ (c >= 9 /\ c <= 13))
          : c \in {c0}})

RECURSIVE Decimal(_)
\* str(n).encode(), n >= 0
Decimal(n0) ==
    Val({(IF n < 10 THEN <<48 + n>> ELSE Decimal(n \div 10) \o <<48 + (n % 10)>>)
          : n \in {n0}})

RECURSIVE DigitsValue(_, _)
DigitsValue(s0, acc0) ==
    Val({(IF s = <<>> THEN acc ELSE DigitsValue(Tail(s), acc * 10 + (s[1] - 48)))
          : s \in {s0}, acc \in {acc0}})

RECURSIVE Strip(_)
Strip(s0) ==
    Val({(IF s = <<>> THEN s
          ELSE IF IsSpace(s[1]) THEN Strip(Tail(s))
          ELSE IF IsSpace(s[Len(s)]) THEN Strip(SubSeq(s, 1, Len(s) - 1))
          ELSE s)
          : s \in {s0}})

\* int(t) for a stripped t: n is the number
IntOf(t0) ==
    Val({(IF t # <<>> /\ \A i \in 1..Len(t) : IsDigit(t[i])
          THEN [st |-> "ret", val |-> <<>>, err |-> "", n |-> DigitsValue(t, 0)]
          ELSE [st |-> "raise", val |-> <<>>, err |-> "ValueError", n |-> 0])
          : t \in {t0}})

\* int(s.decode("ascii")) on surrounding white space and decimal digits
PyInt(s0) ==
    Val({(IF \E i \in 1..Len(s) : s[i] > 127
          THEN [st |-> "raise", val |-> <<>>, err |-> "UnicodeDecodeError", n |-> 0]
          ELSE IntOf(Strip(s)))
          : s \in {s0}})

-----------------------------------------------------------------------------
(* The byte strings of the source.                                         *)

SP  == 32
LF  == 10
NUL == 0
SLASH == 47

b_blob   == <<98, 108, 111, 98>>                       \* b'blob'
b_tree   == <<116, 114, 101, 101>>                     \* b'tree'
b_commit == <<99, 111, 109, 109, 105, 116>>            \* b'commit'
b_tag    == <<116, 97, 103>>                           \* b'tag'
b_object == <<111, 98, 106, 101, 99, 116>>             \* b'object'
b_type   == <<116, 121, 112, 101>>                     \* b'type'
b_tagger == <<116, 97, 103, 103, 101, 114>>            \* b'tagger'
\* b'Nobody <no@bo.dy>'
b_nobody == <<78, 111, 98, 111, 100, 121, 32, 60, 110, 111, 64, 98, 111, 46, 100, 121, 62>>
\* b'A tag generated by wyag - not customizable :)\n'
b_tagmsg == <<65, 32, 116, 97, 103, 32, 103, 101, 110, 101, 114, 97, 116, 101, 100, 32,
              98, 121, 32, 119, 121, 97, 103, 32, 45, 32, 110, 111, 116, 32, 99, 117,
              115, 116, 111, 109, 105, 122, 97, 98, 108, 101, 32, 58, 41, 10>>

s_ref_prefix == <<114, 101, 102, 58, 32>>                              \* 'ref: '
s_objects    == <<111, 98, 106, 101, 99, 116, 115>>                    \* 'objects'
s_refs       == <<114, 101, 102, 115>>                                 \* 'refs'
s_heads      == <<104, 101, 97, 100, 115>>                             \* 'heads'
s_tags       == <<116, 97, 103, 115>>                                  \* 'tags'
s_branches   == <<98, 114, 97, 110, 99, 104, 101, 115>>                \* 'branches'
s_HEAD       == <<72, 69, 65, 68>>                                     \* 'HEAD'
s_config     == <<99, 111, 110, 102, 105, 103>>                        \* 'config'
s_description == <<100, 101, 115, 99, 114, 105, 112, 116, 105, 111, 110>>  \* 'description'
s_refs_heads   == <<114, 101, 102, 115, 47, 104, 101, 97, 100, 115, 47>>           \* 'refs/heads/'
s_refs_remotes == <<114, 101, 102, 115, 47, 114, 101, 109, 111, 116, 101, 115, 47>> \* 'refs/remotes/'
s_refs_tags    == <<114, 101, 102, 115, 47, 116, 97, 103, 115, 47>>                \* 'refs/tags/'
\* 'ref: refs/heads/main\n'
s_head_init == <<114, 101, 102, 58, 32, 114, 101, 102, 115, 47, 104, 101, 97, 100, 115, 47,
                 109, 97, 105, 110, 10>>
\* "Unnamed repository; edit this file 'description' to name the repository.\n"
s_description_text ==
    <<85, 110, 110, 97, 109, 101, 100, 32, 114, 101, 112, 111, 115, 105, 116, 111, 114,
      121, 59, 32, 101, 100, 105, 116, 32, 116, 104, 105, 115, 32, 102, 105, 108, 101,
      32, 39, 100, 101, 115, 99, 114, 105, 112, 116, 105, 111, 110, 39, 32, 116, 111,
      32, 110, 97, 109, 101, 32, 116, 104, 101, 32, 114, 101, 112, 111, 115, 105, 116,
      111, 114, 121, 46, 10>>
\* '[core]\nrepositoryformatversion = 0\nfilemode = false\nbare = false\n\n'
s_config_text ==
    <<91, 99, 111, 114, 101, 93, 10, 114, 101, 112, 111, 115, 105, 116, 111, 114, 121,
      102, 111, 114, 109, 97, 116, 118, 101, 114, 115, 105, 111, 110, 32, 61, 32, 48,
      10, 102, 105, 108, 101, 109, 111, 100, 101, 32, 61, 32, 102, 97, 108, 115, 101,
      10, 98, 97, 114, 101, 32, 61, 32, 102, 97, 108, 115, 101, 10, 10>>

-----------------------------------------------------------------------------
(* hashlib and zlib.                                                       *)

\* The length of a hexdigest, and of the names resolve_shorthash accepts
HexLen == 40
\* The least length of a short hash
MinShort == 4

\* two position-weighted sums of the bytes of data
Mix(data0) ==
    Val({(<<SumMod([i \in 1..Len(data) |-> (data[i] + 1) * (((i * i * 7 + i * 13 + 5) % 241) + 1)],
                   1, Len(data), 65521),
            SumMod([i \in 1..Len(data) |-> (data[i] + 1) * (((i * i * 3 + i * 29 + 11) % 251) + 1)],
                   1, Len(data), 65519)>>)
          : data \in {data0}})

HexDigit(n0) ==
    Val({(IF n < 10 THEN 48 + n ELSE 87 + n)
          : n \in {n0}})

\* the 40 lower-case hexadecimal digits drawn from the two sums m
Digest(m0) ==
    Val({([i \in 1..HexLen |->
              HexDigit(((m[1] * (i * i + 3 * i + 7) + m[2] * (2 * i + 1))
                        \div (IF i % 3 = 0 THEN 1 ELSE IF i % 3 = 1 THEN 16 ELSE 256)) % 16)])
          : m \in {m0}})

\* hashlib.sha1(data).hexdigest(): a digest of every byte of data, as 40 lower-case
\* hexadecimal digits.  (A small mixing function stands for the SHA-1 rounds.)
SHA1(data) == Digest(Mix(data))

\* the four bytes of the checksum with sums a and b
AdlerBytes(a0, b0) ==
    Val({(<<b \div 256, b % 256, a \div 256, a % 256>>)
          : a \in {a0}, b \in {b0}})

\* the Adler-32 checksum of data, as its four bytes
Adler(data0) ==
    Val({(AdlerBytes((1 + SumMod(data, 1, Len(data), 65521)) % 65521,
                     (Len(data) + SumMod([i \in 1..Len(data) |-> (Len(data) - i + 1) * data[i]],
                                         1, Len(data), 65521)) % 65521))
          : data \in {data0}})

\* zlib.compress(data): the stream header, the body and the Adler-32 trailer.
\* (The body stands for the deflate blocks; it is not deflated.)
zlib_compress(data0) ==
    Val({(<<120, 156>> \o data \o Adler(data))
          : data \in {data0}})

\* zlib.decompress(z)
zlib_decompress(z0) ==
    Val({(IF Len(z) >= 6 /\ SubSeq(z, 1, 2) = <<120, 156>>
             /\ SubSeq(z, Len(z) - 3, Len(z)) = Adler(SubSeq(z, 3, Len(z) - 4))
          THEN Ret(SubSeq(z, 3, Len(z) - 4))
          ELSE Raise("zlib.error"))
          : z \in {z0}})

-----------------------------------------------------------------------------
(* The file system below .git, and the path locator.                       *)

Dir        == [data |-> <<>>, kind |-> "dir"]
File(data) == [data |-> data, kind |-> "file"]

\* the gitdir itself
Root == <<>>

\* os.path.join(a, b) below the gitdir
Join(a0, b0) ==
    Val({(IF a = <<>> THEN b ELSE a \o <<SLASH>> \o b)
          : a \in {a0}, b \in {b0}})

RECURSIVE JoinAll(_)
JoinAll(parts0) ==
    Val({(IF parts = <<>> THEN <<>> ELSE Join(JoinAll(SubSeq(parts, 1, Len(parts) - 1)), parts[Len(parts)]))
          : parts \in {parts0}})

\* the greatest index of cut
LastOf(cut0) ==
    Val({(CHOOSE i \in cut : \A j \in cut : j <= i)
          : cut \in {cut0}})

\* os.path.dirname(path)
Parent(path0) ==
    Val({(IF \A i \in 1..Len(path) : path[i] # SLASH THEN Root
          ELSE SubSeq(path, 1, LastOf({i \in 1..Len(path) : path[i] = SLASH}) - 1))
          : path \in {path0}})

\* path and the directories above it
Ancestors(path0) ==
    Val({({SubSeq(path, 1, i - 1) : i \in {j \in 1..Len(path) : path[j] = SLASH}} \cup {path})
          : path \in {path0}})

\* the name of the parent directory
s_dotdot == <<46, 46>>

\* the places in path where a component '..' starts
DotDots(path0) ==
    Val({({i \in 1..(Len(path) - 1) :
              /\ SubSeq(path, i, i + 1) = s_dotdot
              /\ i = 1 \/ path[i - 1] = SLASH
              /\ i + 1 = Len(path) \/ path[i + 2] = SLASH})
          : path \in {path0}})

RECURSIVE lookup(_, _)
\* the first '..' of path, at i, is looked up in the directory named before it: the
\* model holds the files below the gitdir only, so that a path which leaves it
\* names nothing
lookup_parent(f0, path0, i0) ==
    Val({(IF i = 1 THEN Raise("FileNotFoundError")
          ELSE IF SubSeq(path, 1, i - 2) \notin DOMAIN f THEN Raise("FileNotFoundError")
          ELSE IF f[SubSeq(path, 1, i - 2)].kind # "dir" THEN Raise("NotADirectoryError")
          ELSE lookup(f, Join(Parent(SubSeq(path, 1, i - 2)), SubSeq(path, i + 3, Len(path)))))
          : f \in {f0}, path \in {path0}, i \in {i0}})

\* the path that the system's name lookup reaches for path: each component '..'
\* leads to the parent of the directory before it, which must be there
lookup(f0, path0) ==
    Val({(IF DotDots(path) = {} THEN Ret(path)
          ELSE lookup_parent(f, path, CHOOSE i \in DotDots(path) : \A j \in DotDots(path) : i <= j))
          : f \in {f0}, path \in {path0}})

\* the node that path names, if any
node_at(f0, r0) ==
    Val({(IF r.st = "ret" /\ r.val \in DOMAIN f THEN f[r.val].kind ELSE "")
          : f \in {f0}, r \in {r0}})

exists(f0, path0) ==
    Val({(node_at(f, lookup(f, path)) # "")
          : f \in {f0}, path \in {path0}})
isdir(f0, path0) ==
    Val({(node_at(f, lookup(f, path)) = "dir")
          : f \in {f0}, path \in {path0}})
isfile(f0, path0) ==
    Val({(node_at(f, lookup(f, path)) = "file")
          : f \in {f0}, path \in {path0}})

Put(f0, path0, node0) ==
    Val({([p \in DOMAIN f \cup {path} |-> IF p = path THEN node ELSE f[p]])
          : f \in {f0}, path \in {path0}, node \in {node0}})

\* os.makedirs(path), path absent
makedirs(f0, path0) ==
    Val({([p \in DOMAIN f \cup Ancestors(path) |-> IF p \in DOMAIN f THEN f[p] ELSE Dir])
          : f \in {f0}, path \in {path0}})

\* os.listdir(path): the names in directory path
listdir(f0, path0) ==
    Val({({PyFrom(p, Len(path) + 1) :
              p \in {q \in DOMAIN f : /\ Len(q) > Len(path) + 1
                                      /\ StartsWith(q, path \o <<SLASH>>)
                                      /\ \A i \in (Len(path) + 2)..Len(q) : q[i] # SLASH}})
          : f \in {f0}, path \in {path0}})

\* open(path, 'rb').read() once the name is looked up
read_bytes_at(f0, r0) ==
    Val({(IF r.st = "raise" THEN r
          ELSE IF isfile(f, r.val) THEN Ret(f[r.val].data)
          ELSE IF isdir(f, r.val) THEN Raise("IsADirectoryError")
          ELSE IF \E a \in Ancestors(r.val) : isfile(f, a) THEN Raise("NotADirectoryError")
          ELSE Raise("FileNotFoundError"))
          : f \in {f0}, r \in {r0}})

\* open(path, 'rb').read()
read_bytes(f0, path0) ==
    Val({(read_bytes_at(f, lookup(f, path)))
          : f \in {f0}, path \in {path0}})

\* the str decoded from what was read
Decoded(r0) ==
    Val({(IF r.st = "ret" /\ \E i \in 1..Len(r.val) : r.val[i] > 127
          THEN Raise("UnicodeDecodeError")
          ELSE r)
          : r \in {r0}})

\* open(path, 'r').read(): the files of the model that decode are ASCII
read_text(f, path) == Decoded(read_bytes(f, path))

\* with open(path, 'w') as fp: fp.write(data) once the name is looked up
write_file_at(f0, p0, data0) ==
    Val({(IF p.st = "raise" THEN [fs |-> f, r |-> p]
          ELSE IF isdir(f, p.val) THEN [fs |-> f, r |-> Raise("IsADirectoryError")]
          ELSE IF ~isdir(f, Parent(p.val))
               THEN [fs |-> f,
                     r |-> IF \E a \in Ancestors(p.val) : isfile(f, a) /\ a # p.val
                           THEN Raise("NotADirectoryError")
                           ELSE Raise("FileNotFoundError")]
          ELSE [fs |-> Put(f, p.val, File(data)), r |-> RetNone])
          : f \in {f0}, p \in {p0}, data \in {data0}})

\* with open(path, 'w') as fp: fp.write(data); the result and the files afterwards
write_file(f0, path0, data0) ==
    Val({(write_file_at(f, lookup(f, path), data))
          : f \in {f0}, path \in {path0}, data \in {data0}})

\* repo_path(repo, *path), relative to the gitdir
repo_path(parts) == JoinAll(parts)

\* repo_dir for the joined path
repo_dir_at(f0, path0, mkdir0) ==
    Val({(IF exists(f, path)
          THEN [fs |-> f, reads |-> {path},
                r |-> IF isdir(f, path) THEN Ret(path) ELSE Raise("Exception: Not a directory")]
          ELSE IF mkdir
          THEN IF \E a \in Ancestors(path) : isfile(f, a)
               THEN [fs |-> f, reads |-> {path}, r |-> Raise("NotADirectoryError")]
               ELSE [fs |-> makedirs(f, path), reads |-> {path}, r |-> Ret(path)]
          ELSE [fs |-> f, reads |-> {path}, r |-> RetNone])
          : f \in {f0}, path \in {path0}, mkdir \in {mkdir0}})

\* repo_dir(repo, *path, mkdir): the result, the files afterwards, the paths consulted
repo_dir(f, parts, mkdir) == repo_dir_at(f, repo_path(parts), mkdir)

\* repo_file once repo_dir has answered d: the path when the directory is there
repo_file_in(d0, path0) ==
    Val({(IF d.r.st = "ret" THEN [d EXCEPT !.r = Ret(path)] ELSE d)
          : d \in {d0}, path \in {path0}})

\* repo_file(repo, *path, mkdir)
repo_file(f0, parts0, mkdir0) ==
    Val({(repo_file_in(repo_dir(f, SubSeq(parts, 1, Len(parts) - 1), mkdir), repo_path(parts)))
          : f \in {f0}, parts \in {parts0}, mkdir \in {mkdir0}})

-----------------------------------------------------------------------------
(* The object codec: blobs, key-value lists with a message, trees.         *)

\* A GitObject: fmt and the attribute its class sets (the others stay empty).
\* kvlm is the OrderedDict as the sequence of its entries, each a key with a
\* single value (islist FALSE) or a list of values.
GitObject(fmt, blobdata, kvlm, items) ==
    [fmt |-> fmt, blobdata |-> blobdata, kvlm |-> kvlm, items |-> items]

NoObject == GitObject(<<>>, <<>>, <<>>, <<>>)

Ok(obj)   == [st |-> "ok",    err |-> "", obj |-> obj]
Fail(e)   == [st |-> "raise", err |-> e,  obj |-> NoObject]

Entry(k, islist, vals) == [islist |-> islist, vals |-> vals, key |-> k]

HasKey(d0, k0) ==
    Val({(\E i \in 1..Len(d) : d[i].key = k)
          : d \in {d0}, k \in {k0}})
KeyIndex(d0, k0) ==
    Val({(CHOOSE i \in 1..Len(d) : d[i].key = k)
          : d \in {d0}, k \in {k0}})
Get(d0, k0) ==
    Val({(d[KeyIndex(d, k)])
          : d \in {d0}, k \in {k0}})

\* dct[key] = value: a key already there keeps its place
SetKey(d0, e0) ==
    Val({(IF HasKey(d, e.key) THEN [d EXCEPT ![KeyIndex(d, e.key)] = e] ELSE Append(d, e))
          : d \in {d0}, e \in {e0}})

\* the entry of key after value is added: a second value makes the entry a list
Added(dct0, key0, value0) ==
    Val({(IF HasKey(dct, key)
          THEN Entry(key, TRUE, Append(Get(dct, key).vals, value))
          ELSE Entry(key, FALSE, <<value>>))
          : dct \in {dct0}, key \in {key0}, value \in {value0}})

RECURSIVE ContinuationEnd(_, _, _)
\* one turn of the while loop of kvlm_parse, e the newline it found
ContinuationAt(raw0, e0, ends0) ==
    Val({(IF e + 1 >= Len(raw) THEN -2
          ELSE IF raw[e + 2] # SP THEN e
          ELSE IF e \in ends THEN -3
          ELSE ContinuationEnd(raw, e, ends \cup {e}))
          : raw \in {raw0}, e \in {e0}, ends \in {ends0}})

\* the while loop of kvlm_parse: the end of the value that starts before `end`;
\* -2 when raw[end+1] is out of range, -3 when the loop never ends
ContinuationEnd(raw0, end0, ends0) ==
    Val({(ContinuationAt(raw, PyFind(raw, LF, end + 1), ends))
          : raw \in {raw0}, end \in {end0}, ends \in {ends0}})

RECURSIVE kvlm_parse_from(_, _, _, _)
\* kvlm_parse from the key on, end the end of its value
kvlm_parse_value(raw0, start0, dct0, visited0, spc0, end0) ==
    Val({(IF end = -2 THEN [st |-> "raise", err |-> "IndexError", kvlm |-> <<>>]
          ELSE IF end = -3 THEN [st |-> "diverge", err |-> "", kvlm |-> <<>>]
          ELSE kvlm_parse_from(raw, end + 1,
                               SetKey(dct, Added(dct, PySlice(raw, start, spc),
                                                 PyReplace(PySlice(raw, spc + 1, end),
                                                           <<LF, SP>>, <<LF>>))),
                               visited \cup {start}))
          : raw \in {raw0}, start \in {start0}, dct \in {dct0},
            visited \in {visited0}, spc \in {spc0}, end \in {end0}})

\* kvlm_parse once the next space and the next newline are found
kvlm_parse_line(raw0, start0, dct0, visited0, spc0, nl0) ==
    Val({(IF spc < 0 \/ nl < spc
          THEN IF nl # start
               THEN [st |-> "raise", err |-> "AssertionError", kvlm |-> <<>>]
               ELSE [st |-> "ok", err |-> "",
                     kvlm |-> SetKey(dct, Entry(<<>>, FALSE, <<PyFrom(raw, start + 1)>>))]
          ELSE kvlm_parse_value(raw, start, dct, visited, spc, ContinuationEnd(raw, start, {})))
          : raw \in {raw0}, start \in {start0}, dct \in {dct0},
            visited \in {visited0}, spc \in {spc0}, nl \in {nl0}})

\* kvlm_parse(raw, start, dct); visited holds the values of start of the enclosing
\* calls: the same start again is a recursion without end, which Python stops
kvlm_parse_from(raw0, start0, dct0, visited0) ==
    Val({(IF start \in visited THEN [st |-> "raise", err |-> "RecursionError", kvlm |-> <<>>]
          ELSE kvlm_parse_line(raw, start, dct, visited, PyFind(raw, SP, start), PyFind(raw, LF, start)))
          : raw \in {raw0}, start \in {start0}, dct \in {dct0}, visited \in {visited0}})

\* kvlm_parse(raw)
kvlm_parse(raw) == kvlm_parse_from(raw, 0, <<>>, {})

RECURSIVE SerializeValuesFlat(_, _, _)
\* the loop over the values without v.replace(b'\n', b'\n ')
SerializeValuesFlat(k0, vals0, i0) ==
    Val({(IF i > Len(vals) THEN <<>>
          ELSE k \o <<SP>> \o vals[i] \o <<LF>> \o SerializeValuesFlat(k, vals, i + 1))
          : k \in {k0}, vals \in {vals0}, i \in {i0}})

RECURSIVE SerializeValues(_, _, _)
\* for v in val: ret += k + b' ' + (v.replace(b'\n', b'\n ')) + b'\n'
SerializeValues(k0, vals0, i0) ==
    Val({(IF i > Len(vals) THEN <<>>
          ELSE k \o <<SP>> \o PyReplace(vals[i], <<LF>>, <<LF, SP>>) \o <<LF>>
               \o SerializeValues(k, vals, i + 1))
          : k \in {k0}, vals \in {vals0}, i \in {i0}})

RECURSIVE SerializeEntries(_, _)
\* for k in kvlm.keys(): the message is skipped
SerializeEntries(kvlm0, i0) ==
    Val({(IF i > Len(kvlm) THEN <<>>
          ELSE (IF kvlm[i].key = <<>> THEN <<>> ELSE SerializeValues(kvlm[i].key, kvlm[i].vals, 1))
               \o SerializeEntries(kvlm, i + 1))
          : kvlm \in {kvlm0}, i \in {i0}})

\* kvlm_serialize(kvlm)
kvlm_serialize(kvlm0) ==
    Val({(IF ~HasKey(kvlm, <<>>) THEN Raise("KeyError")
          ELSE IF Get(kvlm, <<>>).islist THEN Raise("TypeError")
          ELSE Ret(SerializeEntries(kvlm, 1) \o <<LF>> \o Get(kvlm, <<>>).vals[1]))
          : kvlm \in {kvlm0}})

HexValue(c0) ==
    Val({(IF IsDigit(c) THEN c - 48 ELSE IF c >= 97 THEN c - 87 ELSE c - 55)
          : c \in {c0}})

\* two hexadecimal digits for each byte
ToHex(bytes0) ==
    Val({([i \in 1..(2 * Len(bytes)) |->
              IF i % 2 = 1 THEN HexDigit(bytes[(i + 1) \div 2] \div 16)
              ELSE HexDigit(bytes[i \div 2] % 16)])
          : bytes \in {bytes0}})

\* int(hex, 16).to_bytes(20, byteorder='big'), hex of 40 digits
FromHex(hex0) ==
    Val({([i \in 1..(Len(hex) \div 2) |-> HexValue(hex[2 * i - 1]) * 16 + HexValue(hex[2 * i])])
          : hex \in {hex0}})

\* format(int.from_bytes(bytes, 'big'), '040x'), bytes of at most 20 bytes
Format040x(bytes0) ==
    Val({([i \in 1..(HexLen - 2 * Len(bytes)) |-> 48] \o ToHex(bytes))
          : bytes \in {bytes0}})

GitTreeLeaf(mode, path, id) == [sha |-> id, path |-> path, mode |-> mode]

\* tree_parse_one once the space x and the null y are found
tree_parse_leaf(raw0, start0, x0, y0) ==
    Val({([st |-> "ok", err |-> "", pos |-> y + 21,
           leaf |-> GitTreeLeaf(PySlice(raw, start, x), PySlice(raw, x + 1, y),
                                Format040x(PySlice(raw, y + 1, y + 21)))])
          : raw \in {raw0}, start \in {start0}, x \in {x0}, y \in {y0}})

\* tree_parse_one once the space x is found
tree_parse_mode(raw0, start0, x0) ==
    Val({(IF x - start # 5 /\ x - start # 6
          THEN [st |-> "raise", err |-> "AssertionError", pos |-> 0,
                leaf |-> GitTreeLeaf(<<>>, <<>>, <<>>)]
          ELSE tree_parse_leaf(raw, start, x, PyFind(raw, NUL, x)))
          : raw \in {raw0}, start \in {start0}, x \in {x0}})

\* tree_parse_one(raw, start): the position after the entry, and the entry
tree_parse_one(raw0, start0) ==
    Val({(tree_parse_mode(raw, start, PyFind(raw, SP, start)))
          : raw \in {raw0}, start \in {start0}})

RECURSIVE tree_parse_from(_, _, _, _)
\* one turn of the while loop of tree_parse, one the entry parsed at pos
tree_parse_turn(raw0, pos0, ret0, visited0, one0) ==
    Val({(IF one.st = "raise" THEN [st |-> "raise", err |-> one.err, items |-> <<>>]
          ELSE tree_parse_from(raw, one.pos, Append(ret, one.leaf), visited \cup {pos}))
          : raw \in {raw0}, pos \in {pos0}, ret \in {ret0},
            visited \in {visited0}, one \in {one0}})

\* the while loop of tree_parse; the same pos again is a loop without end
tree_parse_from(raw0, pos0, ret0, visited0) ==
    Val({(IF pos >= Len(raw) THEN [st |-> "ok", err |-> "", items |-> ret]
          ELSE IF pos \in visited THEN [st |-> "diverge", err |-> "", items |-> <<>>]
          ELSE tree_parse_turn(raw, pos, ret, visited, tree_parse_one(raw, pos)))
          : raw \in {raw0}, pos \in {pos0}, ret \in {ret0}, visited \in {visited0}})

\* tree_parse(raw)
tree_parse(raw) == tree_parse_from(raw, 0, <<>>, {})

RECURSIVE tree_serialize_from(_, _)
tree_serialize_from(items0, i0) ==
    Val({(IF i > Len(items) THEN <<>>
          ELSE items[i].mode \o <<SP>> \o items[i].path \o <<NUL>> \o FromHex(items[i].sha)
               \o tree_serialize_from(items, i + 1))
          : items \in {items0}, i \in {i0}})

\* tree_serialize(obj)
tree_serialize(obj) == tree_serialize_from(obj.items, 1)

\* GitTree.deserialize
GitTree(fmt0, t0) ==
    Val({(IF t.st = "ok" THEN Ok(GitObject(fmt, <<>>, <<>>, t.items))
          ELSE [st |-> t.st, err |-> t.err, obj |-> NoObject])
          : fmt \in {fmt0}, t \in {t0}})

\* GitCommit.deserialize (GitTag inherits it)
GitCommit(fmt0, k0) ==
    Val({(IF k.st = "ok" THEN Ok(GitObject(fmt, <<>>, k.kvlm, <<>>))
          ELSE [st |-> k.st, err |-> k.err, obj |-> NoObject])
          : fmt \in {fmt0}, k \in {k0}})

\* c(repo, data) for the class c of fmt: GitObject.__init__ and deserialize
deserialize(fmt0, data0) ==
    Val({(IF fmt = b_blob THEN Ok(GitObject(fmt, data, <<>>, <<>>))
          ELSE IF fmt = b_tree THEN GitTree(fmt, tree_parse(data))
          ELSE GitCommit(fmt, kvlm_parse(data)))
          : fmt \in {fmt0}, data \in {data0}})

\* obj.serialize()
serialize(obj0) ==
    Val({(IF obj.fmt = b_blob THEN Ret(obj.blobdata)
          ELSE IF obj.fmt = b_tree THEN Ret(tree_serialize(obj))
          ELSE kvlm_serialize(obj.kvlm))
          : obj \in {obj0}})

-----------------------------------------------------------------------------
(* The object store.                                                       *)

Kinds == {b_blob, b_tree, b_commit, b_tag}

\* the parts of objects/<sha[0:2]>/<sha[2:]>
ObjectParts(id0) ==
    Val({(<<s_objects, PySlice(id, 0, 2), PyFrom(id, 2)>>)
          : id \in {id0}})

\* object_read once the size in the header is converted
object_read_size(raw0, fmt0, y0, size0) ==
    Val({(IF size.st = "raise" THEN Fail(size.err)
          ELSE IF size.n # Len(raw) - y - 1 THEN Fail("Exception: Malformed object")
          ELSE IF fmt \notin Kinds THEN Fail("Exception: Unknown type")
          ELSE deserialize(fmt, PyFrom(raw, y + 1)))
          : raw \in {raw0}, fmt \in {fmt0}, y \in {y0}, size \in {size0}})

\* object_read once the space x and the null y of the header are found
object_read_header(raw0, x0, y0) ==
    Val({(object_read_size(raw, PySlice(raw, 0, x), y, PyInt(PySlice(raw, x, y))))
          : raw \in {raw0}, x \in {x0}, y \in {y0}})

\* object_read once the file is decompressed
object_read_raw(z0) ==
    Val({(IF z.st = "raise" THEN Fail(z.err)
          ELSE object_read_header(z.val, PyFind(z.val, SP, 0), PyFind(z.val, NUL, PyFind(z.val, SP, 0))))
          : z \in {z0}})

\* object_read once the file is read
object_read_file(c0) ==
    Val({(IF c.st = "raise" THEN Fail(c.err) ELSE object_read_raw(zlib_decompress(c.val)))
          : c \in {c0}})

\* object_read once the path is computed
object_read_path(f0, p0) ==
    Val({(IF p.r.st = "raise" THEN Fail(p.r.err)
          ELSE IF p.r.st = "none" THEN Fail("TypeError")
          ELSE object_read_file(read_bytes(f, p.r.val)))
          : f \in {f0}, p \in {p0}})

\* object_read(repo, sha), sha a str
object_read(f0, id0) ==
    Val({(object_read_path(f, repo_file(f, ObjectParts(id), FALSE)))
          : f \in {f0}, id \in {id0}})

\* the header and the data: obj.fmt + b' ' + str(len(data)).encode() + b'\x00' + data
Framed(fmt0, data0) ==
    Val({(fmt \o <<SP>> \o Decimal(Len(data)) \o <<NUL>> \o data)
          : fmt \in {fmt0}, data \in {data0}})

\* object_write once the file is written
object_write_file(id0, w0) ==
    Val({(IF w.r.st = "raise" THEN w ELSE [fs |-> w.fs, r |-> Ret(id)])
          : id \in {id0}, w \in {w0}})

\* object_write once the path is computed
object_write_path(id0, result0, p0) ==
    Val({(IF p.r.st = "raise" THEN [fs |-> p.fs, r |-> p.r]
          ELSE object_write_file(id, write_file(p.fs, p.r.val, zlib_compress(result))))
          : id \in {id0}, result \in {result0}, p \in {p0}})

\* object_write without the test of actually_write
object_write_sha_always(f0, actually_write0, result0, id0) ==
    Val({(object_write_path(id, result, repo_file(f, ObjectParts(id), TRUE)))
          : f \in {f0}, actually_write \in {actually_write0},
            result \in {result0}, id \in {id0}})

\* object_write once the hash is calculated
object_write_sha(f0, actually_write0, result0, id0) ==
    Val({(IF ~actually_write THEN [fs |-> f, r |-> Ret(id)]
          ELSE object_write_path(id, result, repo_file(f, ObjectParts(id), TRUE)))
          : f \in {f0}, actually_write \in {actually_write0},
            result \in {result0}, id \in {id0}})

\* object_write hashing the data without the header it prepended
object_write_result_headless(f0, actually_write0, result0) ==
    Val({(object_write_sha(f, actually_write, result, SHA1(PyFrom(result, PyFind(result, NUL, 0) + 1))))
          : f \in {f0}, actually_write \in {actually_write0}, result \in {result0}})

\* object_write once the header is prepended to the data
object_write_result(f0, actually_write0, result0) ==
    Val({(object_write_sha(f, actually_write, result, SHA1(result)))
          : f \in {f0}, actually_write \in {actually_write0}, result \in {result0}})

\* object_write once the object is serialized
object_write_data(f0, obj0, actually_write0, d0) ==
    Val({(IF d.st = "raise" THEN [fs |-> f, r |-> d]
          ELSE object_write_result(f, actually_write, Framed(obj.fmt, d.val)))
          : f \in {f0}, obj \in {obj0}, actually_write \in {actually_write0}, d \in {d0}})

\* object_write(obj, actually_write): the result and the files afterwards
object_write(f0, obj0, actually_write0) ==
    Val({(object_write_data(f, obj, actually_write, serialize(obj)))
          : f \in {f0}, obj \in {obj0}, actually_write \in {actually_write0}})

\* object_hash once the object is made from the data
object_hash_obj(f0, o0, write0) ==
    Val({(IF o.st = "ok" THEN object_write(f, o.obj, write)
          ELSE [fs |-> f, r |-> [st |-> o.st, val |-> <<>>, err |-> o.err]])
          : f \in {f0}, o \in {o0}, write \in {write0}})

\* object_hash(fd, fmt, repo): repo is None unless the object is to be written
object_hash(f, fmt, data, write) == object_hash_obj(f, deserialize(fmt, data), write)

-----------------------------------------------------------------------------
(* The reference files and the revision resolver.                          *)

\* the pattern with {3,40} for {4,40}
HexRunFromThree(core0) ==
    Val({(/\ Len(core) >= MinShort - 1
          /\ Len(core) <= HexLen
          /\ \A i \in 1..Len(core) : IsHexChar(core[i]))
          : core \in {core0}})

\* ^[0-9A-Fa-f]{4,40}$ on the whole of core
HexRun(core0) ==
    Val({(/\ Len(core) >= MinShort
          /\ Len(core) <= HexLen
          /\ \A i \in 1..Len(core) : IsHexChar(core[i]))
          : core \in {core0}})

\* hash_re.match(name): $ also matches before a newline that ends the name
hash_re(name0) ==
    Val({(HexRun(IF name # <<>> /\ name[Len(name)] = LF THEN SubSeq(name, 1, Len(name) - 1) ELSE name))
          : name \in {name0}})

\* resolve_shorthash over the names found that start with the remainder
resolve_shorthash_found(prefix0, d0, found0) ==
    Val({(IF found = {} THEN {[reads |-> d.reads, r |-> RetNone]}
          ELSE {[reads |-> d.reads, r |-> Ret(prefix \o n)] : n \in found})
          : prefix \in {prefix0}, d \in {d0}, found \in {found0}})

\* resolve_shorthash once repo_dir has answered d
resolve_shorthash_dir(f0, prefix0, remainder0, d0) ==
    Val({(IF d.r.st = "raise" THEN {[reads |-> d.reads, r |-> d.r]}
          ELSE IF d.r.st = "none" THEN {[reads |-> d.reads, r |-> RetNone]}
          ELSE resolve_shorthash_found(prefix, d, {n \in listdir(f, d.r.val) : StartsWith(n, remainder)}))
          : f \in {f0}, prefix \in {prefix0}, remainder \in {remainder0}, d \in {d0}})

\* resolve_shorthash for the lower-cased name
resolve_shorthash_lower(f0, low0) ==
    Val({(resolve_shorthash_dir(f, PySlice(low, 0, 2), PyFrom(low, 2),
                                repo_dir(f, <<s_objects, PySlice(low, 0, 2)>>, FALSE)))
          : f \in {f0}, low \in {low0}})

\* resolve_shorthash returning a name of 40 characters as it was given
resolve_shorthash_verbatim(f0, name0) ==
    Val({(IF ~hash_re(name) THEN {[reads |-> {}, r |-> RetNone]}
          ELSE IF Len(name) = HexLen THEN {[reads |-> {}, r |-> Ret(name)]}
          ELSE resolve_shorthash_lower(f, Lower(name)))
          : f \in {f0}, name \in {name0}})

\* resolve_shorthash(repo, name): the results the directory listing's order allows,
\* each with the paths consulted
resolve_shorthash(f0, name0) ==
    Val({(IF ~hash_re(name) THEN {[reads |-> {}, r |-> RetNone]}
          ELSE IF Len(name) = HexLen THEN {[reads |-> {}, r |-> Ret(Lower(name))]}
          ELSE resolve_shorthash_lower(f, Lower(name)))
          : f \in {f0}, name \in {name0}})

\* the paths of resolve_named_ref with the tags tried before the branches
NamedRefPathsTagsFirst(name0) ==
    Val({(<<name, s_refs_tags \o name, s_refs_remotes \o name, s_refs_heads \o name>>)
          : name \in {name0}})

\* the paths resolve_named_ref tries, in its order
NamedRefPaths(name0) ==
    Val({(<<name, s_refs_heads \o name, s_refs_remotes \o name, s_refs_tags \o name>>)
          : name \in {name0}})

\* resolve_named_ref when path number first is the first that is a file (0: none is)
resolve_named_ref_first(paths0, first0) ==
    Val({([reads |-> {Root} \cup {paths[i] : i \in {j \in 1..Len(paths) : first = 0 \/ j <= first}},
           path  |-> IF first = 0 THEN <<>> ELSE paths[first],
           index |-> first])
          : paths \in {paths0}, first \in {first0}})

\* resolve_named_ref(repo, name) up to its call of ref_resolve: the index of the
\* first path that is a file (0 when none is), and the paths consulted
resolve_named_ref(f0, name0) ==
    Val({(resolve_named_ref_first(NamedRefPaths(name),
              FirstOf({i \in 1..4 : isfile(f, NamedRefPaths(name)[i])} \cup {5}) % 5))
          : f \in {f0}, name \in {name0}})

\* ref_resolve once the last character is dropped
ref_resolve_data(data0) ==
    Val({(IF StartsWith(data, s_ref_prefix)
          THEN [st |-> "rec", val |-> PyFrom(data, 5), err |-> ""]
          ELSE Ret(data))
          : data \in {data0}})

\* ref_resolve once the file is read
ref_resolve_read(t0) ==
    Val({(IF t.st = "raise" THEN t ELSE ref_resolve_data(PySlice(t.val, 0, -1)))
          : t \in {t0}})

\* one frame of ref_resolve(repo, ref): "ret" with the data, "rec" with the ref to
\* recurse on, or "raise"
ref_resolve(f, r) == ref_resolve_read(read_text(f, r))

\* ref_create once the path is computed
ref_create_path(f0, p0, id0) ==
    Val({(IF p.r.st = "raise" THEN [fs |-> f, r |-> p.r] ELSE write_file(f, p.r.val, id \o <<LF>>))
          : f \in {f0}, p \in {p0}, id \in {id0}})

\* ref_create(repo, ref_name, sha): the result and the files afterwards
ref_create(f0, ref_name0, id0) ==
    Val({(ref_create_path(f, repo_file(f, <<Join(s_refs, ref_name)>>, FALSE), id))
          : f \in {f0}, ref_name \in {ref_name0}, id \in {id0}})

\* the GitTag of tag_create
TagObject(name, id) ==
    GitObject(b_tag, <<>>,
              <<Entry(b_object, FALSE, <<id>>),
                Entry(b_type,   FALSE, <<b_commit>>),
                Entry(b_tag,    FALSE, <<name>>),
                Entry(b_tagger, FALSE, <<b_nobody>>),
                Entry(<<>>,     FALSE, <<b_tagmsg>>)>>,
              <<>>)

\* tag_create once the tag object is written
tag_create_ref(name0, w0) ==
    Val({(IF w.r.st = "raise" THEN w ELSE ref_create(w.fs, Join(s_tags, name), w.r.val))
          : name \in {name0}, w \in {w0}})

\* tag_create(repo, name, reference, annotated_tag) after its object_find gave id
tag_create(f0, name0, id0, annotated_tag0) ==
    Val({(IF annotated_tag
          THEN tag_create_ref(name, object_write(f, TagObject(name, id), TRUE))
          ELSE ref_create(f, Join(s_tags, name), id))
          : f \in {f0}, name \in {name0}, id \in {id0}, annotated_tag \in {annotated_tag0}})

\* value.decode('ascii') for the dict's entry e
DecodeEntry(e0) ==
    Val({(IF e.islist THEN Raise("AttributeError")
          ELSE IF \E i \in 1..Len(e.vals[1]) : e.vals[1][i] > 127 THEN Raise("UnicodeDecodeError")
          ELSE Ret(e.vals[1]))
          : e \in {e0}})

\* obj.kvlm[key].decode('ascii')
KvlmField(obj0, key0) ==
    Val({(IF ~HasKey(obj.kvlm, key) THEN Raise("KeyError") ELSE DecodeEntry(Get(obj.kvlm, key)))
          : obj \in {obj0}, key \in {key0}})

\* the loop of object_find goes on to the sha in link
object_find_next(link0) ==
    Val({(IF link.st = "raise" THEN link ELSE [st |-> "next", val |-> link.val, err |-> ""])
          : link \in {link0}})

\* the loop of object_find with the keys of the two links exchanged
object_find_obj_swapped(o0, id0, fmt0, follow0) ==
    Val({(IF o.st # "ok" THEN [st |-> o.st, val |-> <<>>, err |-> o.err]
          ELSE IF o.obj.fmt = fmt THEN Ret(id)
          ELSE IF ~follow THEN RetNone
          ELSE IF o.obj.fmt = b_tag THEN object_find_next(KvlmField(o.obj, b_tree))
          ELSE IF o.obj.fmt = b_commit /\ fmt = b_tree THEN object_find_next(KvlmField(o.obj, b_object))
          ELSE RetNone)
          : o \in {o0}, id \in {id0}, fmt \in {fmt0}, follow \in {follow0}})

\* one turn of the loop of object_find once the object is read
object_find_obj(o0, id0, fmt0, follow0) ==
    Val({(IF o.st # "ok" THEN [st |-> o.st, val |-> <<>>, err |-> o.err]
          ELSE IF o.obj.fmt = fmt THEN Ret(id)
          ELSE IF ~follow THEN RetNone
          ELSE IF o.obj.fmt = b_tag THEN object_find_next(KvlmField(o.obj, b_object))
          ELSE IF o.obj.fmt = b_commit /\ fmt = b_tree THEN object_find_next(KvlmField(o.obj, b_tree))
          ELSE RetNone)
          : o \in {o0}, id \in {id0}, fmt \in {fmt0}, follow \in {follow0}})

\* one turn of the loop of object_find(repo, name, fmt, follow) at sha: "ret", "none"
\* or "raise" when the loop ends, "next" with the sha of the next turn
object_find_turn(f0, id0, fmt0, follow0) ==
    Val({(object_find_obj(object_read(f, id), id, fmt, follow))
          : f \in {f0}, id \in {id0}, fmt \in {fmt0}, follow \in {follow0}})

-----------------------------------------------------------------------------
(* The commands.  A command that resolves a revision runs in steps: its    *)
(* start (object_resolve up to the first ref_resolve), one step for each   *)
(* frame of ref_resolve, one step for each turn of the loop of object_find;*)
(* the step that ends it does the rest of the command.  The program is      *)
(* single-threaded: no command starts while one runs.                      *)

\* The running command: cmd, the revision name it resolves, the expected kind fmt
\* (<<>> for None), follow, and for
\*   branch:       arg the branch name
\*   tag:          arg the tag name, flag whether -a is given
\*   hash-object:  data the file's bytes, flag whether -w is given
\* short, path and resolved are what object_resolve did: the result of
\* resolve_shorthash, the path resolve_named_ref picked, and what it returned.
Call(cmd, name, fmt, follow, arg, flag, data) ==
    [data |-> data, path |-> <<>>, fmt |-> fmt, name |-> name, follow |-> follow,
     cmd |-> cmd, arg |-> arg, flag |-> flag, short |-> RetNone, resolved |-> RetNone]

NoCall == Call("", <<>>, <<>>, FALSE, <<>>, FALSE, <<>>)

\* the object files written so far
ObjectFiles(f0) ==
    Val({({p \in DOMAIN f : isfile(f, p) /\ StartsWith(p, s_objects \o <<SLASH>>)})
          : f \in {f0}})

\* no command has ended yet
NoOutcome == [call |-> NoCall, reads |-> {}, r |-> RetNone, found |-> RetNone]

\* cat_file once the object is read
cat_file_obj(f0, o0) ==
    Val({(IF o.st # "ok" THEN [fs |-> f, r |-> Raise(o.err)] ELSE [fs |-> f, r |-> serialize(o.obj)])
          : f \in {f0}, o \in {o0}})

\* the rest of command c once its object_find has ended with r
Complete(c0, r0, f0) ==
    Val({(IF r.st = "raise" THEN [fs |-> f, r |-> r]
          ELSE IF c.cmd = "branch"
          THEN IF Falsy(r) THEN [fs |-> f, r |-> Raise("Exception: Bad reference!")]
               ELSE ref_create(f, Join(s_heads, c.arg), r.val)
          ELSE IF c.cmd = "tag"
          THEN IF Falsy(r) THEN [fs |-> f, r |-> Raise("Exception: Bad reference!")]
               ELSE tag_create(f, c.arg, r.val, c.flag)
          ELSE IF c.cmd = "cat-file"
          THEN IF r.st = "none" THEN [fs |-> f, r |-> Raise("TypeError")]
               ELSE cat_file_obj(f, object_read(f, r.val))
          ELSE [fs |-> f, r |-> r])
          : c \in {c0}, r \in {r0}, f \in {f0}})

\* the command ends: what it returned or printed (r), and exit status 1 iff it raised;
\* cmd_log goes on to log_graphviz(repo, sha, set()) with the sha object_find returned
Done(c, r, rd) ==
    IF c.cmd = "log" /\ r.st = "ret"
    THEN /\ pc' = "log"
         /\ sha' = r.val
         /\ call' = c
         /\ reads' = rd
         /\ ref' = <<>>
         /\ depth' = 0
         /\ out' = NoOutcome
         /\ UNCHANGED fs
    ELSE \E k \in {Complete(c, r, fs)} :
        /\ fs' = k.fs
        /\ out' = [call |-> c, reads |-> rd, r |-> k.r, found |-> r]
        /\ pc' = "idle"
        /\ call' = NoCall
        /\ ref' = <<>>
        /\ depth' = 0
        /\ sha' = <<>>
        /\ reads' = {}

\* what object_find returns or raises before its loop, object_resolve having returned r
Found(r) ==
    IF r.st = "raise" THEN r
    ELSE IF Falsy(r) THEN Raise("Exception: No such reference")
    ELSE r

\* object_find once object_resolve has returned r
Resolved(c, r, rd) ==
    IF r.st = "raise" \/ Falsy(r) \/ c.fmt = <<>>
    THEN Done([c EXCEPT !.resolved = r], Found(r), rd)
    ELSE /\ pc' = "follow"
         /\ sha' = r.val
         /\ call' = [c EXCEPT !.resolved = r]
         /\ reads' = rd
         /\ ref' = <<>>
         /\ depth' = 0
         /\ out' = NoOutcome
         /\ UNCHANGED fs

\* a command starts: object_find, object_resolve, resolve_shorthash and
\* resolve_named_ref up to its call of ref_resolve
Begin(c) ==
    /\ pc = "idle"
    /\ UNCHANGED logvars
    /\ \E s \in resolve_shorthash(fs, c.name) : \E n \in {resolve_named_ref(fs, c.name)} :
         IF s.r.st = "raise" \/ ~Falsy(s.r)
         THEN Resolved([c EXCEPT !.short = s.r], s.r, s.reads)
         ELSE IF n.index = 0
         THEN Resolved(c, RetNone, s.reads \cup n.reads)
         ELSE /\ pc' = "ref_resolve"
              /\ ref' = n.path
              /\ depth' = 1
              /\ call' = [c EXCEPT !.path = n.path]
              /\ reads' = s.reads \cup n.reads
              /\ sha' = <<>>
              /\ out' = NoOutcome
              /\ UNCHANGED fs

\* ref_resolve as a loop that keeps no count of the refs it has followed
RefResolveStepUncounted ==
    /\ pc = "ref_resolve"
    /\ UNCHANGED logvars
    /\ \E t \in {ref_resolve(fs, ref)} :
         IF t.st = "rec"
         THEN /\ ref' = t.val
              /\ reads' = reads \cup {ref}
              /\ UNCHANGED <<fs, pc, call, depth, sha, out>>
         ELSE Resolved(call, t, reads \cup {ref})

\* one frame of ref_resolve: it returns, raises, or calls itself
RefResolveStep ==
    /\ pc = "ref_resolve"
    /\ UNCHANGED logvars
    /\ \E t \in {ref_resolve(fs, ref)} :
         IF t.st = "rec" /\ depth < RecursionLimit
         THEN /\ ref' = t.val
              /\ depth' = depth + 1
              /\ reads' = reads \cup {ref}
              /\ UNCHANGED <<fs, pc, call, sha, out>>
         ELSE Resolved(call, IF t.st = "rec" THEN Raise("RecursionError") ELSE t,
                       reads \cup {ref})

\* one turn of the loop of object_find
FollowStep ==
    /\ pc = "follow"
    /\ UNCHANGED logvars
    /\ \E t \in {object_find_turn(fs, sha, call.fmt, call.follow)} :
         /\ t.st # "diverge"
         /\ IF t.st = "next"
            THEN /\ sha' = t.val
                 /\ reads' = reads \cup {repo_path(ObjectParts(sha))}
                 /\ UNCHANGED <<fs, pc, call, ref, depth, out>>
            ELSE Done(call, t, reads \cup {repo_path(ObjectParts(sha))})

\* GitRepository('.'): the checks of __init__ on the gitdir and its config file
GitRepository(f0) ==
    Val({(IF ~isdir(f, Root) THEN Raise("Exception: Not a Git repository")
          ELSE IF ~exists(f, s_config) THEN Raise("Exception: Configuration file missing")
          ELSE RetNone)
          : f \in {f0}})

\* cmd_hash_object: hash-object [-w] -t fmt <file holding data>
cmd_hash_object(fmt, data, write) ==
    /\ pc = "idle"
    /\ write => Cardinality(ObjectFiles(fs)) < MaxObjects
    /\ \E h \in {IF write /\ GitRepository(fs).st = "raise"
                 THEN [fs |-> fs, r |-> GitRepository(fs)]
                 ELSE object_hash(fs, fmt, data, write)} :
         /\ h.r.st # "diverge"
         /\ fs' = h.fs
         /\ out' = [call |-> Call("hash-object", <<>>, fmt, FALSE, <<>>, write, data),
                    reads |-> {}, r |-> h.r, found |-> RetNone]
         /\ UNCHANGED <<pc, call, ref, depth, sha, reads>>
         /\ UNCHANGED logvars

\* cmd_rev_parse: rev-parse [--wyag-type fmt] name
cmd_rev_parse(name, fmt) == Begin(Call("rev-parse", name, fmt, TRUE, <<>>, FALSE, <<>>))

\* object_find(repo, name, fmt, follow) called by itself
call_object_find(name, fmt, follow) ==
    Begin(Call("object_find", name, fmt, follow, <<>>, FALSE, <<>>))

\* cmd_cat_file: cat-file fmt object
cmd_cat_file(fmt, name) == Begin(Call("cat-file", name, fmt, TRUE, <<>>, FALSE, <<>>))

\* cmd_branch: branch name startpoint
cmd_branch(name, startpoint) ==
    Begin(Call("branch", startpoint, <<>>, TRUE, name, FALSE, <<>>))

\* cmd_tag: tag [-a] name object
cmd_tag(name, object, annotated) ==
    /\ annotated => Cardinality(ObjectFiles(fs)) < MaxObjects
    /\ Begin(Call("tag", object, <<>>, TRUE, name, annotated, <<>>))

\* the directories repo_create makes
NewDirs == {Root, s_branches, s_objects, s_refs, Join(s_refs, s_tags), Join(s_refs, s_heads)}

\* repo_create(path): the gitdir of a new repository
NewRepository ==
    [p \in NewDirs \cup {s_description, s_HEAD, s_config} |->
        IF p \in NewDirs THEN Dir
        ELSE IF p = s_description THEN File(s_description_text)
        ELSE IF p = s_HEAD THEN File(s_head_init)
        ELSE File(s_config_text)]

\* a process of wyag starts with files f
Idle(f) ==
    /\ fs = f
    /\ pc = "idle"
    /\ call = NoCall
    /\ ref = <<>>
    /\ depth = 0
    /\ sha = <<>>
    /\ reads = {}
    /\ out = NoOutcome
    /\ seen = {}
    /\ frames = <<>>
    /\ printed = <<>>

-----------------------------------------------------------------------------
(* The files given to hash-object, and the names given to the commands.    *)

Input(fmt, data) == [data |-> data, fmt |-> fmt]

Id(fmt, data) == SHA1(Framed(fmt, data))

\* b'hello\n'
BlobA == <<104, 101, 108, 108, 111, 10>>
\* b'cole\n': as a blob its id shares its first four digits with BlobA's
BlobB == <<99, 111, 108, 101, 10>>
IdBlobA == Id(b_blob, BlobA)
IdBlobB == Id(b_blob, BlobB)

\* b'100644 a\x00' and the 20 bytes of BlobA's id
TreeT == <<49, 48, 48, 54, 52, 52, 32, 97, 0>> \o FromHex(IdBlobA)
IdTreeT == Id(b_tree, TreeT)

\* b'tree <id of TreeT>\n\nm\n'
CommitC == b_tree \o <<SP>> \o IdTreeT \o <<10, 10, 109, 10>>
IdCommitC == Id(b_commit, CommitC)

\* b'a 1\nb 2\n 3\na 4\n\nm': key a twice, around key b whose value has two lines
KvlmM == <<97, 32, 49, 10, 98, 32, 50, 10, 32, 51, 10, 97, 32, 52, 10, 10, 109>>

s_v1   == <<118, 49>>                  \* 'v1'
s_main == <<109, 97, 105, 110>>        \* 'main'

\* hash-object's files: well-formed ones of each kind, and BlobA given as a commit
\* and as a tree, which do not parse
StoreInputs ==
    {Input(b_blob, BlobA), Input(b_tree, TreeT),
     Input(b_commit, CommitC), Input(b_tag, KvlmM),
     Input(b_commit, BlobA), Input(b_tree, BlobA)}

\* the revisions tag -a is given
StoreTagged == {IdCommitC, s_v1}

\* the kinds and revisions cat-file is given
StoreReads ==
    {<<b_blob, IdBlobA>>, <<b_commit, IdCommitC>>, <<b_tree, IdCommitC>>,
     <<b_tag, s_v1>>, <<b_commit, s_v1>>}

Init == Idle(NewRepository)

HashObject == \E i \in StoreInputs, w \in BOOLEAN : cmd_hash_object(i.fmt, i.data, w)
TagAnnotated == \E n \in StoreTagged : cmd_tag(s_v1, n, TRUE)
CatFile == \E a \in StoreReads : cmd_cat_file(a[1], a[2])

Next ==
    \/ HashObject
    \/ TagAnnotated
    \/ CatFile
    \/ RefResolveStep
    \/ FollowStep

Spec == Init /\ [][Next]_vars

-----------------------------------------------------------------------------
(* Repositories to resolve revisions in, and the revisions asked for.      *)

s_v2      == <<118, 50>>                                    \* 'v2'
s_loop    == <<108, 111, 111, 112>>                         \* 'loop'
s_ping    == <<112, 105, 110, 103>>                         \* 'ping'
s_pong    == <<112, 111, 110, 103>>                         \* 'pong'
s_nothing == <<110, 111, 116, 104, 105, 110, 103>>          \* 'nothing'

\* b'tree <id of CommitC>\n\nm\n': a commit whose tree field names a commit
CommitD == b_tree \o <<SP>> \o IdCommitC \o <<10, 10, 109, 10>>
IdCommitD == Id(b_commit, CommitD)

\* the tag objects of tag -a v1 <CommitC> and of tag -a v2 v1
IdTagV1 == Id(b_tag, serialize(TagObject(s_v1, IdCommitC)).val)
IdTagV2 == Id(b_tag, serialize(TagObject(s_v2, IdTagV1)).val)

\* the files after hash-object -w -t fmt on data
Stored(f, fmt, data) == object_hash(f, fmt, data, TRUE).fs

\* a repository after init, hash-object -w of two blobs, a tree and two commits,
\* branch main <CommitC>, tag -a v1 <CommitC> and tag -a v2 v1
Populated ==
    tag_create(
        tag_create(
            ref_create(
                Stored(Stored(Stored(Stored(Stored(NewRepository,
                    b_blob, BlobA), b_blob, BlobB), b_tree, TreeT), b_commit, CommitC),
                    b_commit, CommitD),
                Join(s_heads, s_main), IdCommitC).fs,
            s_v1, IdCommitC, TRUE).fs,
        s_v2, IdTagV1, TRUE).fs

\* the file of a symbolic ref to target, as git symbolic-ref writes it
SymRef(target) == File(s_ref_prefix \o target \o <<LF>>)

\* Populated with symbolic refs that form cycles: loop -> loop, ping -> pong -> ping
Looped ==
    Put(Put(Put(Populated,
        s_refs_heads \o s_loop, SymRef(s_refs_heads \o s_loop)),
        s_refs_heads \o s_ping, SymRef(s_refs_heads \o s_pong)),
        s_refs_heads \o s_pong, SymRef(s_refs_heads \o s_ping))

\* the repositories a process of wyag is started in
Repositories == {NewRepository, Populated, Looped}

\* s.upper()
Upper(s) == [i \in 1..Len(s) |-> IF s[i] >= 97 /\ s[i] <= 122 THEN s[i] - 32 ELSE s[i]]

\* the first n hexadecimal digits of BlobA's id: 5 name BlobA alone, 4 name BlobA and
\* BlobB, 3 are fewer than a short hash has
Short5 == PySlice(IdBlobA, 0, 5)
Short4 == PySlice(IdBlobA, 0, 4)
Short3 == PySlice(IdBlobA, 0, 3)

\* the revisions given to rev-parse and object_find
Revisions ==
    {s_HEAD, s_main, s_v1, s_v2, s_refs_heads \o s_main, s_description, s_nothing,
     s_loop, s_ping,
     IdBlobA, Upper(IdBlobA), IdTreeT, IdCommitC, IdCommitD,
     Short5, Upper(Short5), Short4, Short3}

\* the revisions given to object_find with follow false
Unfollowed == {s_HEAD, s_v1, IdBlobA, IdCommitC}

\* the branches made: v1, the name of a tag, at BlobA; Short5, a name that looks like
\* a short hash, at main; a name that looks like BlobA's id, at the commit
Branches == {<<s_v1, IdBlobA>>, <<Short5, s_main>>, <<Upper(IdBlobA), IdCommitC>>}

InitResolve == \E f \in Repositories : Idle(f)

RevParse == \E n \in Revisions, k \in Kinds \cup {<<>>} : cmd_rev_parse(n, k)
ObjectFind == \E n \in Unfollowed, k \in Kinds : call_object_find(n, k, FALSE)
Branch == \E b \in Branches : cmd_branch(b[1], b[2])

NextResolve ==
    \/ RevParse
    \/ ObjectFind
    \/ Branch
    \/ RefResolveStep
    \/ FollowStep

\* The program is sequential: a command that can take its next step takes it.
SpecResolve ==
    InitResolve /\ [][NextResolve]_vars /\ WF_vars(RefResolveStep) /\ WF_vars(FollowStep)

-----------------------------------------------------------------------------
(* The object store's properties.                                          *)

\* the id that the path objects/<xx>/<rest> names
PathId(p) == SubSeq(p, Len(s_objects) + 2, Len(s_objects) + 3) \o SubSeq(p, Len(s_objects) + 5, Len(p))

\* raw is '<kind> <len>NUL<payload>' for one of the four kinds
IsFrame(raw) ==
    \E k \in Kinds : raw = Framed(k, PyFrom(raw, PyFind(raw, NUL, 0) + 1))

\* the file at p holds a compressed frame whose digest is the id its path names
HoldsItsFrame(f, p) ==
    LET z == zlib_decompress(f[p].data)
    IN  z.st = "ret" /\ IsFrame(z.val) /\ SHA1(z.val) = PathId(p)

\* the last command ended was hash-object -w, and it printed an id
Wrote == out.call.cmd = "hash-object" /\ out.call.flag /\ out.r.st = "ret"

\* the last command ended was tag -a, and it created the tag
Tagged == out.call.cmd = "tag" /\ out.call.flag /\ out.r.st = "none"

\* the id tag -a wrote to the tag's ref file: what its object_write returned
TaggedId == PySlice(fs[Join(s_refs, Join(s_tags, out.call.arg))].data, 0, -1)

\* C1: content addressing.  In every reachable state, every object file
\* objects/<xx>/<rest> holds the compressed frame '<kind> <len>NUL<payload>' whose
\* digest is xx+rest; and the id that object_write returned, to hash-object -w or to
\* tag -a, names the file that holds the frame of the object written.
C1_ContentAddressing ==
    /\ \A p \in ObjectFiles(fs) : HoldsItsFrame(fs, p)
    /\ Wrote =>
         /\ repo_path(ObjectParts(out.r.val)) \in ObjectFiles(fs)
         /\ zlib_decompress(fs[repo_path(ObjectParts(out.r.val))].data).val
              = Framed(out.call.fmt, serialize(deserialize(out.call.fmt, out.call.data).obj).val)
    /\ Tagged =>
         /\ repo_path(ObjectParts(TaggedId)) \in ObjectFiles(fs)
         /\ zlib_decompress(fs[repo_path(ObjectParts(TaggedId))].data).val
              = Framed(b_tag, serialize(TagObject(out.call.arg, out.found.val)).val)

\* hash-object -w and tag -a have both written: the store holds a tag made by tag -a
\* and at least one more object
C1_Witness ==
    /\ Tagged
    /\ Cardinality(ObjectFiles(fs)) >= 2
    /\ repo_path(ObjectParts(IdCommitC)) \in ObjectFiles(fs)

\* object_read(repo, id) succeeds and yields an object of o's kind that serializes as o
ReadsBack(f, id, o) ==
    LET x == object_read(f, id)
    IN  /\ x.st = "ok"
        /\ x.obj.fmt = o.fmt
        /\ serialize(o).st = "ret"
        /\ serialize(x.obj) = serialize(o)

\* C2: write/read round trip.  When object_write has written an object o (of any of
\* the four kinds, for hash-object -w, or the tag object of tag -a), object_read of
\* the id it returned succeeds and yields an object of the same kind whose
\* serialize() equals o.serialize().
C2_RoundTrip ==
    /\ Wrote => ReadsBack(fs, out.r.val, deserialize(out.call.fmt, out.call.data).obj)
    /\ Tagged => ReadsBack(fs, TaggedId, TagObject(out.call.arg, out.found.val))

\* a tag whose key-value list has a repeated key and a value of two lines has been
\* written, next to the tree and the commit
C2_Witness ==
    /\ Wrote
    /\ out.call.fmt = b_tag
    /\ out.call.data = KvlmM
    /\ {repo_path(ObjectParts(IdTreeT)), repo_path(ObjectParts(IdCommitC))} \subseteq ObjectFiles(fs)

\* C3: hash-object without -w (object_write with actually_write false) leaves every
\* file and directory below .git as it was, and returns what object_write returns
\* with actually_write true.
C3_DryRun ==
    [][\A i \in StoreInputs :
          cmd_hash_object(i.fmt, i.data, FALSE) =>
              /\ fs' = fs
              /\ out'.r = object_hash(fs, i.fmt, i.data, TRUE).r]_vars

\* hash-object without -w has printed the id of an object that the store, which holds
\* other objects, does not hold
C3_Witness ==
    /\ out.call.cmd = "hash-object"
    /\ ~out.call.flag
    /\ out.r.st = "ret"
    /\ ObjectFiles(fs) # {}
    /\ repo_path(ObjectParts(out.r.val)) \notin DOMAIN fs
    /\ repo_path(<<s_objects, PySlice(out.r.val, 0, 2)>>) \notin DOMAIN fs

-----------------------------------------------------------------------------
(* The resolver's properties.                                              *)

\* s is 40 hexadecimal characters
IsId(s) == Len(s) = HexLen /\ \A i \in 1..Len(s) : IsHexChar(s[i])

\* the command that has ended resolved its revision through ref_resolve
ThroughRef == out.call.cmd # "" /\ out.call.path # <<>>

\* C4: ref_resolve applied to a ref path returns a string of exactly 40 hexadecimal
\* characters or ends in an error: whenever a command's revision was resolved
\* through ref_resolve and ref_resolve returned a value, the value is such a string.
C4_RefResolveReturnsId ==
    (ThroughRef /\ out.call.resolved.st = "ret") => IsId(out.call.resolved.val)


RECURSIVE ChainEnd(_, _, _)
\* where the chain of 'ref: ' indirections that starts at path p ends in files f:
\* "cycle" when it comes back to a ref it has passed, "missing" when it reaches a
\* path that is no file, "value" when it reaches a file that holds no indirection
ChainEnd(f, p, passed) ==
    IF p \in passed THEN "cycle"
    ELSE IF ~isfile(f, p) THEN "missing"
    ELSE IF StartsWith(PySlice(f[p].data, 0, -1), s_ref_prefix)
    THEN ChainEnd(f, PyFrom(PySlice(f[p].data, 0, -1), 5), passed \cup {p})
    ELSE "value"

\* ref_resolve is running on a chain that contains a cycle or reaches a missing file
OnBrokenChain == pc = "ref_resolve" /\ ChainEnd(fs, call.path, {}) \in {"cycle", "missing"}

\* C5: ref_resolve on a chain of 'ref: ' indirections that contains a cycle, or that
\* reaches a file that does not exist, stops and reports an error: each of its steps
\* either goes on or ends the command with an error and no value, and it does end.
C5_BrokenChainIsError ==
    /\ [][OnBrokenChain =>
            \/ pc' = "ref_resolve"
            \/ /\ pc' = "idle"
               /\ out'.call.resolved.st = "raise"
               /\ out'.found.st = "raise"
               /\ out'.r.st = "raise"]_vars
    /\ (OnBrokenChain ~> pc = "idle")

\* rev-parse ping, ping -> pong -> ping, has ended with Python's RecursionError
C5_Witness ==
    /\ out.call.cmd = "rev-parse"
    /\ out.call.name = s_ping
    /\ out.call.path = s_refs_heads \o s_ping
    /\ ChainEnd(fs, out.call.path, {}) = "cycle"
    /\ out.r = Raise("RecursionError")


\* the ids of the objects in the store of files f
StoredIds(f) == {PathId(p) : p \in ObjectFiles(f)}

\* name is lo to hi hexadecimal characters
IsHexName(name, lo, hi) ==
    Len(name) >= lo /\ Len(name) <= hi /\ \A i \in 1..Len(name) : IsHexChar(name[i])

\* the ids that name stands for as a full or a short hash
HashMatches(f, name) ==
    IF IsHexName(name, 40, 40) THEN {Lower(name)}
    ELSE IF IsHexName(name, 4, 39) THEN {id \in StoredIds(f) : StartsWith(id, Lower(name))}
    ELSE {}

\* the four places a named ref is looked for, in order
RefCandidates(name) ==
    <<name, s_refs_heads \o name, s_refs_remotes \o name, s_refs_tags \o name>>

\* the candidates of name that are files
ExistingCandidates(f, name) == {i \in 1..4 : isfile(f, RefCandidates(name)[i])}

\* the first candidate of name that is a file
FirstCandidate(f, name) ==
    RefCandidates(name)[CHOOSE i \in ExistingCandidates(f, name) :
                            \A j \in ExistingCandidates(f, name) : i <= j]

\* the file at path p holds a value, not a 'ref: ' indirection
HoldsValue(f, p) == ~StartsWith(PySlice(f[p].data, 0, -1), s_ref_prefix)

\* rev-parse or object_find has ended; neither changes a file, so fs is the files
\* its revision was resolved in
Looked == out.call.cmd \in {"rev-parse", "object_find"}

\* C6: resolution order, first success wins.  object_resolve(name) returns the
\* hex/short-hash match when there is one, without looking at a ref; otherwise it
\* resolves the first file among name, refs/heads/name, refs/remotes/name and
\* refs/tags/name, in that order (a file that holds a value resolves to that value);
\* when nothing matches, object_find raises the not-found error.  With no expected
\* kind object_find returns what object_resolve returned.
C6_ResolutionOrder ==
    Looked =>
        /\ HashMatches(fs, out.call.name) # {} =>
              /\ out.call.resolved.st = "ret"
              /\ out.call.resolved.val \in HashMatches(fs, out.call.name)
              /\ out.call.path = <<>>
        /\ (HashMatches(fs, out.call.name) = {} /\ ExistingCandidates(fs, out.call.name) # {}) =>
              /\ out.call.path = FirstCandidate(fs, out.call.name)
              /\ HoldsValue(fs, out.call.path) =>
                    out.call.resolved = Ret(PySlice(fs[out.call.path].data, 0, -1))
        /\ (HashMatches(fs, out.call.name) = {} /\ ExistingCandidates(fs, out.call.name) = {}) =>
              /\ out.call.resolved = RetNone
              /\ out.found = Raise("Exception: No such reference")
              /\ out.r = out.found
        /\ (out.call.fmt = <<>> /\ out.call.resolved.st = "ret" /\ out.call.resolved.val # <<>>) =>
              out.found = out.call.resolved

\* rev-parse v1 has ended where v1 is both a branch (at BlobA) and a tag: it gave the
\* branch
C6_Witness ==
    /\ out.call.cmd = "rev-parse"
    /\ out.call.name = s_v1
    /\ out.call.fmt = <<>>
    /\ isfile(fs, s_refs_heads \o s_v1)
    /\ isfile(fs, s_refs_tags \o s_v1)
    /\ out.call.path = s_refs_heads \o s_v1
    /\ out.r = Ret(IdBlobA)

\* a command has ended that resolved, with no expected kind, a name of 40
\* hexadecimal characters
FullHashEnded ==
    /\ out.call.cmd \in {"rev-parse", "object_find", "branch"}
    /\ out.call.fmt = <<>>
    /\ IsHexName(out.call.name, 40, 40)

\* C7: for a name of 40 hexadecimal characters, in any letter case, resolution with
\* no expected kind returns the lower-cased name, whatever the object store and the
\* ref files hold, and reads and changes none of them: object_find has returned the
\* lower-cased name and has consulted no path, and the step in which rev-parse ends
\* is the step in which it started and leaves the files as they were.
C7_FullHash ==
    /\ [](FullHashEnded => (out.found = Ret(Lower(out.call.name)) /\ out.reads = {}))
    /\ [][(FullHashEnded' /\ out' # out /\ out'.call.cmd = "rev-parse") =>
              (pc = "idle" /\ fs' = fs /\ out'.r = Ret(Lower(out'.call.name)))]_vars

\* rev-parse of BlobA's id in upper case has given the id in lower case, in a
\* repository where a branch has that upper-case name and points at the commit
C7_Witness ==
    /\ out.call.cmd = "rev-parse"
    /\ out.call.name = Upper(IdBlobA)
    /\ out.call.name # IdBlobA
    /\ out.call.fmt = <<>>
    /\ isfile(fs, s_refs_heads \o Upper(IdBlobA))
    /\ out.r = Ret(IdBlobA)
    /\ out.reads = {}

\* C8: short-hash matching.  For a name of 4 to 39 hexadecimal characters, when
\* exactly one stored object id starts with the lower-cased name, resolve_shorthash
\* returns that full id, and so does object_resolve; for a hexadecimal name of 3 or
\* fewer characters resolve_shorthash returns nothing and object_resolve gives only
\* what a named ref gives, even when a stored object id starts with the name.
C8_ShortHash ==
    Looked =>
        /\ (/\ IsHexName(out.call.name, 4, 39)
            /\ Cardinality(HashMatches(fs, out.call.name)) = 1) =>
              /\ out.call.short.st = "ret"
              /\ out.call.short.val \in HashMatches(fs, out.call.name)
              /\ Len(out.call.short.val) = HexLen
              /\ out.call.resolved = out.call.short
        /\ IsHexName(out.call.name, 0, 3) =>
              /\ out.call.short = RetNone
              /\ ExistingCandidates(fs, out.call.name) = {} =>
                    out.found = Raise("Exception: No such reference")

\* rev-parse of the first five digits of BlobA's id, in upper case, has given BlobA's
\* id, the only one of the stored ids that starts with them
C8_Witness ==
    /\ out.call.cmd = "rev-parse"
    /\ out.call.name = Upper(Short5)
    /\ out.call.name # Short5
    /\ Cardinality(StoredIds(fs)) >= 2
    /\ out.r = Ret(IdBlobA)


\* the object stored under id in files f is of kind fmt
IsOfKind(f, id, fmt) ==
    /\ id \in StoredIds(f)
    /\ object_read(f, id).st = "ok"
    /\ object_read(f, id).obj.fmt = fmt

\* rev-parse or object_find has ended, having been given an expected kind
LookedForKind == Looked /\ out.call.fmt # <<>>

\* C9: object_find with an expected kind either returns the id of a stored object
\* whose kind is the expected kind, or fails with an error; it never hands back a
\* result that is not an id.
C9_KindOrError ==
    LookedForKind =>
        \/ out.found.st = "raise"
        \/ /\ out.found.st = "ret"
           /\ IsOfKind(fs, out.found.val, out.call.fmt)

RECURSIVE TagChainEnd(_, _, _)
\* the commit at the end of the chain of tags' 'object' links that starts at id, a
\* chain of at most fuel links; <<>> when the chain does not end at a commit
TagChainEnd(f, id, fuel) ==
    IF IsOfKind(f, id, b_commit) THEN id
    ELSE IF IsOfKind(f, id, b_tag) /\ fuel > 0 /\ KvlmField(object_read(f, id).obj, b_object).st = "ret"
    THEN TagChainEnd(f, KvlmField(object_read(f, id).obj, b_object).val, fuel - 1)
    ELSE <<>>

\* the commit that the revision of the command that has ended leads to
EndCommit == TagChainEnd(fs, out.call.resolved.val, Cardinality(StoredIds(fs)))

\* the 'tree' field of the commit stored under id
TreeField(f, id) == KvlmField(object_read(f, id).obj, b_tree)

\* rev-parse --wyag-type tree has ended on a name that resolved to a commit, or to a
\* chain of annotated tags that ends at a commit, and the commit has a 'tree' field
TreeAsked ==
    /\ out.call.cmd = "rev-parse"
    /\ out.call.fmt = b_tree
    /\ out.call.resolved.st = "ret"
    /\ EndCommit # <<>>
    /\ TreeField(fs, EndCommit).st = "ret"

\* C10 as stated: following to a tree yields exactly the id in the commit's 'tree'
\* field.
C10_TreeFieldOfCommit == TreeAsked => out.found = TreeField(fs, EndCommit)

\* the link object_find follows from the object stored under id
FollowedLink(f, id) ==
    IF IsOfKind(f, id, b_tag) THEN KvlmField(object_read(f, id).obj, b_object)
    ELSE IF IsOfKind(f, id, b_commit) THEN TreeField(f, id)
    ELSE RetNone

\* C10, amended: following to a tree yields exactly the id in the commit's 'tree'
\* field when the object stored under that id is a tree; each turn of the loop goes
\* from a tag along its 'object' link or from a commit, the expected kind being tree,
\* along its 'tree' link; and the loop ends (the links of the repositories are
\* acyclic).
C10_FollowToTree ==
    /\ []((TreeAsked /\ IsOfKind(fs, TreeField(fs, EndCommit).val, b_tree)) =>
              out.found = TreeField(fs, EndCommit))
    /\ [][(pc = "follow" /\ pc' = "follow") =>
              /\ FollowedLink(fs, sha) = Ret(sha')
              /\ IsOfKind(fs, sha, b_commit) => call.fmt = b_tree]_vars
    /\ (pc = "follow" ~> pc = "idle")

\* rev-parse --wyag-type tree v2 has ended: the tag v2 names the tag v1, which names
\* the commit, whose tree it gave
C10_Witness ==
    /\ out.call.cmd = "rev-parse"
    /\ out.call.name = s_v2
    /\ out.call.fmt = b_tree
    /\ out.call.resolved = Ret(IdTagV2)
    /\ EndCommit = IdCommitC
    /\ out.r = Ret(IdTreeT)

-----------------------------------------------------------------------------
(* Refs made by tag and branch.                                            *)

s_v3        == <<118, 51>>                                      \* 'v3'
s_rel_v3    == <<114, 101, 108, 47, 118, 51>>                   \* 'rel/v3'
s_dev       == <<100, 101, 118>>                                \* 'dev'
s_feature_x == <<102, 101, 97, 116, 117, 114, 101, 47, 120>>    \* 'feature/x'

\* a repository after init, hash-object -w of a blob, a tree and a commit, and
\* branch main <CommitC>: HEAD resolves to the commit
Committed ==
    ref_create(
        Stored(Stored(Stored(NewRepository, b_blob, BlobA), b_tree, TreeT), b_commit, CommitC),
        Join(s_heads, s_main), IdCommitC).fs

\* the tags made: name, object, whether -a is given
Tags ==
    {<<s_v3, s_HEAD, FALSE>>, <<s_v3, IdBlobA, FALSE>>, <<s_rel_v3, s_HEAD, FALSE>>,
     <<s_v3, s_HEAD, TRUE>>, <<s_rel_v3, IdBlobA, TRUE>>}

\* '../../objects/<xx>/<rest>' for BlobA's id: from refs/heads, the name of the file
\* that holds BlobA
s_up_to_blob == s_dotdot \o <<SLASH>> \o s_dotdot \o <<SLASH>> \o repo_path(ObjectParts(IdBlobA))

\* the branches made: name, startpoint
RefBranches ==
    {<<s_dev, s_HEAD>>, <<s_dev, s_v3>>, <<s_feature_x, IdCommitC>>, <<s_up_to_blob, IdCommitC>>}

\* the revisions read back
RefRevisions == {s_v3, s_rel_v3, s_dev, s_feature_x, s_HEAD}

InitRefs == \E f \in {NewRepository, Committed} : Idle(f)

\* the files hashed again: a blob and a commit
Rehashed == {Input(b_blob, BlobA), Input(b_commit, CommitC)}

Rehash == \E i \in Rehashed, w \in BOOLEAN : cmd_hash_object(i.fmt, i.data, w)
Tag == \E t \in Tags : cmd_tag(t[1], t[2], t[3])
BranchOff == \E b \in RefBranches : cmd_branch(b[1], b[2])
RevParseRef == \E n \in RefRevisions, k \in {<<>>, b_commit} : cmd_rev_parse(n, k)

NextRefs ==
    \/ Rehash
    \/ Tag
    \/ BranchOff
    \/ RevParseRef
    \/ RefResolveStep
    \/ FollowStep

SpecRefs ==
    InitRefs /\ [][NextRefs]_vars /\ WF_vars(RefResolveStep) /\ WF_vars(FollowStep)

-----------------------------------------------------------------------------
(* The properties of ref creation.                                         *)

\* the last command ended was branch or tag without -a, and its object_find
\* returned an id: the command called ref_create(repo, rel, id)
MadeRef ==
    /\ out.call.cmd \in {"branch", "tag"}
    /\ ~out.call.flag
    /\ out.found.st = "ret"

\* the rel that ref_create was called with
MadeRel == Join(IF out.call.cmd = "branch" THEN s_heads ELSE s_tags, out.call.arg)

\* C11: reference creation.  After ref_create(repo, rel, id), called by branch or by
\* tag without -a for any rel, with or without '/' in the name, the directories above
\* refs/<rel> exist, the file refs/<rel> holds exactly id and one newline, and
\* ref_resolve of refs/<rel> returns id.
C11_RefCreated ==
    MadeRef =>
        /\ out.r = RetNone
        /\ \A a \in Ancestors(Join(s_refs, MadeRel)) \ {Join(s_refs, MadeRel)} : isdir(fs, a)
        /\ isfile(fs, Join(s_refs, MadeRel))
        /\ read_bytes(fs, Join(s_refs, MadeRel)) = Ret(out.found.val \o <<LF>>)
        /\ ref_resolve(fs, Join(s_refs, MadeRel)) = Ret(out.found.val)

-----------------------------------------------------------------------------
(* Commit and tag payloads, parsed and serialized again.                   *)

\* the longest list of header lines of a payload
MaxLines == 3

\* header lines: b'a 1\n', b'a 4\n', b'b 2\n 3\n' whose value has two lines, b'c \n'
\* whose value is empty
HeaderLines ==
    {<<97, 32, 49, 10>>, <<97, 32, 52, 10>>, <<98, 32, 50, 10, 32, 51, 10>>, <<99, 32, 10>>}

\* messages: b'', b'm', b'x y\n'
Messages == {<<>>, <<109>>, <<120, 32, 121, 10>>}

\* the payloads of at most n header lines, the blank line and the message not yet added
RECURSIVE Headers(_)
Headers(n) ==
    IF n = 0 THEN {<<>>}
    ELSE Headers(n - 1) \cup {h \o l : h \in Headers(n - 1), l \in HeaderLines}

\* header lines, a blank line, a message
Payloads == {h \o <<LF>> \o m : h \in Headers(MaxLines), m \in Messages}

\* a commit or a tag is made from the bytes raw
InitKvlm ==
    \E raw \in Payloads :
        /\ fs = NewRepository
        /\ pc = "deserialize"
        /\ call = Call("kvlm", <<>>, <<>>, FALSE, <<>>, FALSE, raw)
        /\ ref = <<>>
        /\ depth = 0
        /\ sha = <<>>
        /\ reads = {}
        /\ out = NoOutcome
        /\ seen = {}
        /\ frames = <<>>
        /\ printed = <<>>

\* GitCommit(repo, data), GitTag(repo, data): deserialize calls kvlm_parse(data)
KvlmParse ==
    /\ pc = "deserialize"
    /\ \E k \in {kvlm_parse(call.data)} :
         /\ pc' = IF k.st = "ok" THEN "serialize" ELSE "idle"
         /\ out' = [call |-> call, reads |-> {},
                    r |-> IF k.st = "ok" THEN RetNone ELSE Raise(k.err),
                    found |-> k]
    /\ UNCHANGED <<fs, call, ref, depth, sha, reads>>
    /\ UNCHANGED logvars

\* obj.serialize(): kvlm_serialize(self.kvlm) on the dict kvlm_parse made
KvlmSerialize ==
    /\ pc = "serialize"
    /\ pc' = "idle"
    /\ out' = [out EXCEPT !.r = kvlm_serialize(out.found.kvlm)]
    /\ UNCHANGED <<fs, call, ref, depth, sha, reads>>
    /\ UNCHANGED logvars

NextKvlm ==
    \/ KvlmParse
    \/ KvlmSerialize

SpecKvlm == InitKvlm /\ [][NextKvlm]_vars

\* a payload has been parsed and the dict serialized
Serialized == out.call.cmd = "kvlm" /\ pc = "idle"

\* C12: key-value list round trip.  For every payload of header lines 'key SP value
\* LF' (with continuation lines), a blank line and a message, kvlm_serialize of
\* kvlm_parse of the payload is the payload, byte for byte, also when a key occurs
\* more than once, adjacent or with other keys between.
C12_KvlmRoundTrip == Serialized => out.r = Ret(out.call.data)

-----------------------------------------------------------------------------
(* log: the traversal of the commits' parents.                             *)

b_parent == <<112, 97, 114, 101, 110, 116>>

\* log_graphviz once the commit is read: it returns, raises, or starts its loop
\* over the parents
log_graphviz_commit(o0, seen0) ==
    Val({(IF o.st # "ok" THEN [seen |-> sn, st |-> o.st, err |-> o.err, parents |-> <<>>]
          ELSE IF o.obj.fmt # b_commit
          THEN [seen |-> sn, st |-> "raise", err |-> "AssertionError", parents |-> <<>>]
          ELSE IF ~HasKey(o.obj.kvlm, b_parent)
          THEN [seen |-> sn, st |-> "return", err |-> "", parents |-> <<>>]
          ELSE [seen |-> sn, st |-> "loop", err |-> "",
                parents |-> Get(o.obj.kvlm, b_parent).vals])
          : o \in {o0}, sn \in {seen0}})

\* the call log_graphviz(repo, sha, seen), the nesting-th frame of log_graphviz on
\* the stack, up to its loop
log_graphviz(f0, id0, seen0, nesting0) ==
    Val({(IF nesting > RecursionLimit
          THEN [seen |-> sn, st |-> "raise", err |-> "RecursionError", parents |-> <<>>]
          ELSE IF id \in sn
          THEN [seen |-> sn, st |-> "return", err |-> "", parents |-> <<>>]
          ELSE log_graphviz_commit(object_read(f, id), sn \cup {id}))
          : f \in {f0}, id \in {id0}, sn \in {seen0}, nesting \in {nesting0}})

\* the frame of a call of log_graphviz in its loop: parents[i] is the next parent
Frame(id, parents, i) == [sha |-> id, i |-> i, parents |-> parents]

\* cmd_log ends: r is None, or the exception that ended it
LogDone(r, sn, pr) ==
    /\ pc' = "idle"
    /\ out' = [call |-> call, reads |-> reads, r |-> r, found |-> Ret(sha)]
    /\ seen' = sn
    /\ printed' = pr
    /\ frames' = <<>>
    /\ call' = NoCall
    /\ sha' = <<>>
    /\ reads' = {}
    /\ UNCHANGED <<fs, ref, depth>>

\* the call e of log_graphviz for id has come to its loop or has ended; fr holds the
\* frames of its callers, pr what is printed
LogCalled(e, id, fr, pr) ==
    /\ e.st # "diverge"
    /\ IF e.st = "loop"
       THEN /\ frames' = Append(fr, Frame(id, e.parents, 1))
            /\ seen' = e.seen
            /\ printed' = pr
            /\ UNCHANGED <<fs, pc, call, ref, depth, sha, reads, out>>
       ELSE IF e.st = "return" /\ fr # <<>>
       THEN /\ frames' = fr
            /\ seen' = e.seen
            /\ printed' = pr
            /\ UNCHANGED <<fs, pc, call, ref, depth, sha, reads, out>>
       ELSE LogDone(IF e.st = "return" THEN RetNone ELSE Raise(e.err), e.seen, pr)

\* p.decode('ascii') of the bytes p
DecodeAscii(p) ==
    IF \E i \in 1..Len(p) : p[i] > 127 THEN Raise("UnicodeDecodeError") ELSE Ret(p)

\* one turn of the loop of the innermost call of log_graphviz: the edge to the next
\* parent is printed and log_graphviz is called on it
LogParent(top, fr) ==
    \E p \in {DecodeAscii(top.parents[top.i])} :
        IF p.st = "raise"
        THEN LogDone(p, seen, printed)
        ELSE LogCalled(log_graphviz(fs, p.val, seen, Len(frames) + 1), p.val,
                       Append(fr, Frame(top.sha, top.parents, top.i + 1)),
                       Append(printed, <<top.sha, p.val>>))

\* the innermost call of log_graphviz returns, its loop being over
LogReturn(fr) ==
    IF fr = <<>>
    THEN LogDone(RetNone, seen, printed)
    ELSE /\ frames' = fr
         /\ UNCHANGED <<fs, pc, call, ref, depth, sha, reads, out, seen, printed>>

\* one step of cmd_log after its object_find: the call log_graphviz(repo, sha, set()),
\* one turn of the innermost loop, or the return from it
LogStep ==
    /\ pc = "log"
    /\ IF frames = <<>>
       THEN LogCalled(log_graphviz(fs, sha, {}, 1), sha, <<>>, <<>>)
       ELSE \E top \in {frames[Len(frames)]} : \E fr \in {SubSeq(frames, 1, Len(frames) - 1)} :
              IF top.i > Len(top.parents)
              THEN LogReturn(fr)
              ELSE LogParent(top, fr)

\* cmd_log: log commit
cmd_log(commit) == Begin(Call("log", commit, <<>>, TRUE, <<>>, FALSE, <<>>))

-----------------------------------------------------------------------------
(* Histories to log.                                                       *)

\* b'tree <id of TreeT>\n', b'parent <id>\n' for each parent, b'\n' and the message
RECURSIVE ParentLines(_, _)
ParentLines(parents, i) ==
    IF i > Len(parents) THEN <<>>
    ELSE b_parent \o <<SP>> \o parents[i] \o <<LF>> \o ParentLines(parents, i + 1)

CommitOn(parents, message) ==
    b_tree \o <<SP>> \o IdTreeT \o <<LF>> \o ParentLines(parents, 1) \o <<LF>> \o message

\* a linear history: commit 0 is CommitC, commit n has commit n - 1 as its parent
RECURSIVE ChainCommit(_)
ChainCommit(n) ==
    IF n = 0 THEN CommitC ELSE CommitOn(<<Id(b_commit, ChainCommit(n - 1))>>, <<109, 10>>)

ChainId(n) == Id(b_commit, ChainCommit(n))

\* the files after hash-object -w -t commit of the commits 0..n of the linear history
RECURSIVE StoredChain(_, _)
StoredChain(f, n) ==
    IF n < 0 THEN f ELSE Stored(StoredChain(f, n - 1), b_commit, ChainCommit(n))

\* the last commit of the linear history: one commit more than log_graphviz can nest
ChainTip == RecursionLimit

\* a repository with the linear history, branch main at its last commit
Linear == ref_create(StoredChain(NewRepository, ChainTip), Join(s_heads, s_main), ChainId(ChainTip)).fs

\* a merge: CommitL and CommitR have CommitC as parent, CommitM has both as parents
CommitL == CommitOn(<<IdCommitC>>, <<108, 10>>)
CommitR == CommitOn(<<IdCommitC>>, <<114, 10>>)
IdCommitL == Id(b_commit, CommitL)
IdCommitR == Id(b_commit, CommitR)
CommitM == CommitOn(<<IdCommitL, IdCommitR>>, <<109, 10>>)
IdCommitM == Id(b_commit, CommitM)

\* a repository with the merge, branch main at CommitM
Merged ==
    ref_create(
        Stored(Stored(Stored(Stored(NewRepository,
            b_commit, CommitC), b_commit, CommitL), b_commit, CommitR), b_commit, CommitM),
        Join(s_heads, s_main), IdCommitM).fs

\* 40 times 'a', 40 times 'b'
IdX == [i \in 1..40 |-> 97]
IdY == [i \in 1..40 |-> 98]

\* the files after the object fmt, data is put under id, which object_read does not
\* compare with the digest of what it reads
Placed(f, id, fmt, data) ==
    write_file(repo_dir(f, <<s_objects, PySlice(id, 0, 2)>>, TRUE).fs,
               repo_path(ObjectParts(id)), zlib_compress(Framed(fmt, data))).fs

\* a repository with object files whose parent links form a cycle: the commit under
\* IdX has the one under IdY as parent, which has the one under IdX and CommitC
Cyclic ==
    Placed(Placed(Stored(NewRepository, b_commit, CommitC),
        IdX, b_commit, CommitOn(<<IdY>>, <<120, 10>>)),
        IdY, b_commit, CommitOn(<<IdX, IdCommitC>>, <<121, 10>>))

\* the commits given to log
LogRevisions ==
    {s_HEAD, IdCommitC, IdCommitL, IdCommitM, IdX, IdY} \cup {ChainId(n) : n \in 1..ChainTip}

InitLog == \E f \in {Linear, Merged, Cyclic} : Idle(f)

Log == \E n \in LogRevisions : cmd_log(n)

NextLog ==
    \/ Log
    \/ RefResolveStep
    \/ LogStep

\* The program is sequential: a command that can take its next step takes it.
SpecLog == InitLog /\ [][NextLog]_vars /\ WF_vars(RefResolveStep) /\ WF_vars(LogStep)

-----------------------------------------------------------------------------
(* The properties of log.                                                  *)

\* the values of the key 'parent' of the commit stored under id
ParentsOf(f, id) ==
    LET o == object_read(f, id)
    IN  IF o.st = "ok" /\ HasKey(o.obj.kvlm, b_parent) THEN Get(o.obj.kvlm, b_parent).vals
        ELSE <<>>

\* the ids reachable from those of S through parent links
RECURSIVE ReachableFrom(_, _)
ReachableFrom(f, S) ==
    LET N == S \cup UNION {{ParentsOf(f, c)[i] : i \in 1..Len(ParentsOf(f, c))} : c \in S}
    IN  IF N = S THEN S ELSE ReachableFrom(f, N)

\* how many times x occurs in the sequence s
Occurrences(s, x) == Cardinality({i \in 1..Len(s) : s[i] = x})

\* log has ended, started at the commit out.found.val of a history whose commits are
\* all stored
LogEnded ==
    /\ pc = "idle"
    /\ out.call.cmd = "log"
    /\ out.found.st = "ret"
    /\ \A c \in ReachableFrom(fs, {out.found.val}) : IsOfKind(fs, c, b_commit)

\* C13: commit history traversal.  log started at a commit ends without an error,
\* having expanded every commit reachable through parent links (seen holds exactly
\* those) and printed each parent edge of each of them exactly once, also when two
\* paths lead to the same commit and when a parent link leads back to a commit
\* already visited.
C13_LogVisitsAll ==
    LogEnded =>
        /\ out.r = RetNone
        /\ seen = ReachableFrom(fs, {out.found.val})
        /\ \A i \in 1..Len(printed) : printed[i][1] \in seen
        /\ \A c \in seen : \A p \in seen \cup {ParentsOf(fs, c)[i] : i \in 1..Len(ParentsOf(fs, c))} :
             Occurrences(printed, <<c, p>>) = Occurrences(ParentsOf(fs, c), p)

\* within the depth that Python allows, log ends as C13 says
LogWithinLimit == (LogEnded /\ out.r # Raise("RecursionError")) => C13_LogVisitsAll

\* log ends
LogTerminates == (pc = "log") ~> (pc = "idle")

-----------------------------------------------------------------------------
(* The object store only grows.                                            *)

\* C14: objects are immutable.  No step of hash-object (with or without -w), tag,
\* branch or rev-parse removes an object or changes what object_read gives for an id
\* that was stored before the step: its kind and its payload stay the same, also
\* when an object is written whose id is already there.
C14_ObjectsImmutable ==
    [][\A id \in StoredIds(fs) :
          /\ id \in StoredIds(fs')
          /\ object_read(fs', id) = object_read(fs, id)]_vars

=============================================================================
